---- MODULE Spec2Model ----
(***************************************************************************)
(* Conversation state machine and generation-polling protocol of the       *)
(* Telegram content-generation bot (src/bot.py).                           *)
(*                                                                         *)
(* Python dicts are functions whose DOMAIN is the set of keys present;     *)
(* the remote services (prompt refinement, generation, upload, Telegram    *)
(* file API) are the environment: each request is answered by a response   *)
(* drawn from a bounded set of responses.  A conversation is kept per user, *)
(* as the session store is; a handler runs to its end before the next      *)
(* update is dispatched (the Application of main() is built without        *)
(* concurrent updates), so one update is one step.                         *)
(***************************************************************************)
EXTENDS Integers, Sequences, FiniteSets, TLC

\* ------------------------------------------------------------------ bounds
NumUsers == 1
NumEnhanced == 2

Users == 1..NumUsers

\* ------------------------------------------------------- dicts and strings
EmptyDict == <<>>

Has(d, k) == k \in DOMAIN d

Put(d, k, v) == [x \in (DOMAIN d) \cup {k} |-> IF x = k THEN v ELSE d[x]]

Get(d, k, default) == IF Has(d, k) THEN d[k] ELSE default

Range(s) == {s[i] : i \in DOMAIN s}

\* str.lower() on a string held as a tuple of one-character strings
UpperChars == <<"A","B","C","D","E","F","G","H","I","J","K","L","M",
                "N","O","P","Q","R","S","T","U","V","W","X","Y","Z">>
LowerChars == <<"a","b","c","d","e","f","g","h","i","j","k","l","m",
                "n","o","p","q","r","s","t","u","v","w","x","y","z">>

LowerChar(c) ==
    IF \E i \in DOMAIN UpperChars : UpperChars[i] = c
    THEN LowerChars[CHOOSE i \in DOMAIN UpperChars : UpperChars[i] = c]
    ELSE c

Lower(s) == [i \in DOMAIN s |-> LowerChar(s[i])]

\* Python's `needle in hay` on strings
Contains(needle, hay) ==
    \E i \in 1..(Len(hay) - Len(needle) + 1) :
        SubSeq(hay, i, i + Len(needle) - 1) = needle

TooLongNeedle == <<"t","o","o"," ","l","o","n","g">>

UnknownError == <<"U","n","k","n","o","w","n"," ","e","r","r","o","r">>

\* ------------------------------------------------------------------ States
INITIAL_PROMPT == "INITIAL_PROMPT"
CHOOSING_PROMPT == "CHOOSING_PROMPT"
REFERENCE_CHOICE == "REFERENCE_CHOICE"
AWAITING_REFERENCE == "AWAITING_REFERENCE"
GENERATING_IMAGE == "GENERATING_IMAGE"
ITERATING_IMAGE == "ITERATING_IMAGE"
END == "END"

States == {INITIAL_PROMPT, CHOOSING_PROMPT, REFERENCE_CHOICE,
           AWAITING_REFERENCE, GENERATING_IMAGE, ITERATING_IMAGE}

\* ---------------------------------------------------------------- messages
NoPhoto == "-"

Text(id, args) == [kind |-> "text", id |-> id, args |-> args, photo |-> NoPhoto]

Photo(url, id) == [kind |-> "photo", id |-> id, args |-> <<>>, photo |-> url]

\* ------------------------------------------------- inputs of the user side
FrogPrompt == "a pixel-art frog astronaut"

Fifty == "0123456789012345678901234567890123456789012345678"  \o "9"

\* a 250-character prompt
LongPrompt == Fifty \o Fifty \o Fifty \o Fifty \o Fifty

Prompts == {FrogPrompt, LongPrompt}

Texts == Prompts \cup {"1", "2", "3"}

Commands == {"/start", "/cancel", "/help"}

\* update.message.photo: the sizes of one photo, smallest first
PhotoUpdates == { <<[file_id |-> "thumb"], [file_id |-> "full"]>>,
                  <<[file_id |-> "only"]>> }

NoSizes == <<>>

TextUpdate(t) == [kind |-> "text", text |-> t, photo |-> NoSizes]

CommandUpdate(c) == [kind |-> "command", text |-> c, photo |-> NoSizes]

PhotoUpdate(p) == [kind |-> "photo", text |-> "", photo |-> p]

\* ---------------------------------------------- responses of the services
Response(fault, code, body) == [fault |-> fault, code |-> code, body |-> body]

NetError == Response("request", 0, EmptyDict)

EnhancedPrompts == {"enhanced#" \o ToString(i) : i \in 1..NumEnhanced}

ErrTooLongMixed == <<"P","r","o","m","p","t"," ","i","s"," ","T","o","o"," ","L","o","n","g">>
ErrTooLongLower == <<"t","o","o"," ","l","o","n","g">>
ErrBadRequest == <<"b","a","d"," ","r","e","q","u","e","s","t">>

ErrorTexts == {ErrTooLongMixed, ErrTooLongLower, ErrBadRequest}

ImproveOk(e) == Response("none", 200, Put(EmptyDict, "promptGeneration", [prompt |-> e]))

ImproveError(code, msg) == Response("none", code, Put(EmptyDict, "error", msg))

ImproveResponses ==
    {ImproveOk(e) : e \in EnhancedPrompts}
    \cup {ImproveError(400, m) : m \in ErrorTexts}
    \cup { Response("none", 500, EmptyDict),      \* no 'error' key
           Response("decode", 502, EmptyDict),    \* body is not JSON
           Response("none", 200, EmptyDict),      \* 200 without 'promptGeneration'
           NetError }

Image1 == "http://img/1.png"
Image2 == "http://img/2.png"

GenBody(status, urls) ==
    Put(EmptyDict, "generations_by_pk",
        [status |-> status, generated_images |-> [i \in DOMAIN urls |-> [url |-> urls[i]]]])

PollComplete(url) == Response("none", 200, GenBody("COMPLETE", <<url>>))
PollPending == Response("none", 200, GenBody("PENDING", <<>>))
PollPendingWithImage(url) == Response("none", 200, GenBody("PENDING", <<url>>))
PollCompleteEmpty == Response("none", 200, GenBody("COMPLETE", <<>>))
PollNoJob == Response("none", 200, EmptyDict)
PollNon2xx == Response("none", 503, EmptyDict)
PollBadJson == Response("decode", 200, EmptyDict)

SubmitOk == Response("none", 200, Put(EmptyDict, "sdGenerationJob", [generationId |-> "gen-1"]))
SubmitRejected == Response("none", 500, EmptyDict)
SubmitNoJob == Response("none", 200, EmptyDict)

\* ------------------------------------------------------- generation client
max_attempts == 30
poll_interval == 2

GenResult(fn, prompt, image_url, script, status, url, error, trace, sent) ==
    [fn |-> fn, prompt |-> prompt, image_url |-> image_url, script |-> script,
     status |-> status, url |-> url, error |-> error, trace |-> trace, sent |-> sent]

NoCall == GenResult("none", "", "", EmptyDict, "none", "", "", <<>>, <<>>)

StatusError(code) == "Generation failed with status " \o ToString(code)

\* generation_data.get('generations_by_pk', {}) with the .get defaults of its fields
JobOf(body) == Get(body, "generations_by_pk", [status |-> "", generated_images |-> <<>>])

\* mutant: the status field is not looked at (as on the reference path)
IsCompleteWithImage_ignores_status(generation_data) ==
    JobOf(generation_data).generated_images # <<>>

\* lines 406-408: the decoded status response ends the loop with success
IsCompleteWithImage(generation_data) ==
    /\ JobOf(generation_data).status = "COMPLETE"
    /\ JobOf(generation_data).generated_images # <<>>

\* mutant: one attempt too many
LoopDone_off_by_one(attempt) == attempt > max_attempts

\* line 395: for attempt in range(max_attempts)
LoopDone(attempt) == attempt >= max_attempts

RECURSIVE PollLoop(_, _, _, _, _)

\* mutant: a job that is complete without an image ends the call at once
RECURSIVE PollLoop_gives_up_when_empty(_, _, _, _, _)
PollLoop_gives_up_when_empty(prompt, script, sent, attempt, trace) ==
    IF LoopDone(attempt)
    THEN GenResult("generate_image", prompt, "", script, "error", "",
                   "Generation timed out or failed to complete", trace, sent)
    ELSE
      LET results_response == script.polls[attempt + 1]
          polled == Append(trace, "GET /generations/id")
          slept == Append(polled, "sleep " \o ToString(poll_interval))
      IN  IF results_response.fault = "request"
          THEN GenResult("generate_image", prompt, "", script, "error", "",
                         "exception: request", polled, sent)
          ELSE IF results_response.code = 200
          THEN IF results_response.fault = "decode"
               THEN GenResult("generate_image", prompt, "", script, "error", "",
                              "exception: decode", polled, sent)
               ELSE IF IsCompleteWithImage(results_response.body)
               THEN GenResult("generate_image", prompt, "", script, "success",
                              JobOf(results_response.body).generated_images[1].url,
                              "", polled, sent)
               ELSE IF JobOf(results_response.body).status = "COMPLETE"
               THEN GenResult("generate_image", prompt, "", script, "error", "",
                              "Generation timed out or failed to complete", polled, sent)
               ELSE PollLoop_gives_up_when_empty(prompt, script, sent, attempt + 1, slept)
          ELSE PollLoop_gives_up_when_empty(prompt, script, sent, attempt + 1, slept)

\* lines 395-420: the polling loop, entered with `attempt` checks made
PollLoop(prompt, script, sent, attempt, trace) ==
    IF LoopDone(attempt)
    THEN GenResult("generate_image", prompt, "", script, "error", "",
                   "Generation timed out or failed to complete", trace, sent)
    ELSE
      LET results_response == script.polls[attempt + 1]
          polled == Append(trace, "GET /generations/id")
          slept == Append(polled, "sleep " \o ToString(poll_interval))
      IN  IF results_response.fault = "request"
          THEN GenResult("generate_image", prompt, "", script, "error", "",
                         "exception: request", polled, sent)
          ELSE IF results_response.code = 200
          THEN IF results_response.fault = "decode"
               THEN GenResult("generate_image", prompt, "", script, "error", "",
                              "exception: decode", polled, sent)
               ELSE IF IsCompleteWithImage(results_response.body)
               THEN GenResult("generate_image", prompt, "", script, "success",
                              JobOf(results_response.body).generated_images[1].url,
                              "", polled, sent)
               ELSE PollLoop(prompt, script, sent, attempt + 1, slept)
          ELSE PollLoop(prompt, script, sent, attempt + 1, slept)

generate_image(prompt, script) ==
    IF script.reply = "fault"
    THEN GenResult("generate_image", prompt, "", script, "error", "",
                   "exception: reply", <<>>, <<>>)
    ELSE
      LET sent == <<Text("GENERATING", <<>>)>>
          response == script.submit
          trace == <<"POST /generations">>
      IN  IF response.fault = "request"
          THEN GenResult("generate_image", prompt, "", script, "error", "",
                         "exception: request", trace, sent)
          ELSE IF response.code # 200
          THEN GenResult("generate_image", prompt, "", script, "error", "",
                         StatusError(response.code), trace, sent)
          ELSE IF response.fault = "decode" \/ ~Has(response.body, "sdGenerationJob")
          THEN GenResult("generate_image", prompt, "", script, "error", "",
                         "exception: decode", trace, sent)
          ELSE PollLoop(prompt, script, sent, 0, trace)

SlotOk ==
    Response("none", 200,
             Put(EmptyDict, "uploadInitImage",
                 [fields |-> "{\"key\": \"k\"}", url |-> "https://s3/upload", id |-> "img-1"]))
SlotRejected == Response("none", 401, EmptyDict)
SlotNoImage == Response("none", 200, EmptyDict)

FetchOk == Response("none", 200, EmptyDict)
FetchMissing == Response("none", 404, EmptyDict)

UploadOk == Response("none", 204, EmptyDict)
UploadOk200 == Response("none", 200, EmptyDict)
UploadForbidden == Response("none", 403, EmptyDict)

\* mutant: any 2xx status acknowledges the upload
UploadAccepted_any_2xx(s3_response) == s3_response.code \in 200..299

\* line 470: the status that acknowledges the direct upload
UploadAccepted(s3_response) == s3_response.code = 204

\* mutant: the exception is not caught and leaves the client
RefError_propagates(prompt, image_url, script, error, trace, sent) ==
    GenResult("generate_image_with_reference", prompt, image_url, script,
              "raised", "", error, trace, sent)

\* lines 527-532: except Exception turns what was raised into an error result
RefError(prompt, image_url, script, error, trace, sent) ==
    GenResult("generate_image_with_reference", prompt, image_url, script,
              "error", "", error, trace, sent)

\* lines 506-525: the fixed delay and the single status check
ReferenceCheck(prompt, image_url, script, sent, trace) ==
    LET results_response == script.check
        checked == trace \o <<"sleep 20", "GET /generations/id">>
        generated_images == JobOf(results_response.body).generated_images
    IN  IF results_response.fault = "request"
        THEN RefError(prompt, image_url, script, "exception: request", checked, sent)
        ELSE IF results_response.code = 200 /\ results_response.fault = "decode"
        THEN RefError(prompt, image_url, script, "exception: decode", checked, sent)
        ELSE IF results_response.code = 200 /\ generated_images # <<>>
        THEN GenResult("generate_image_with_reference", prompt, image_url, script,
                       "success", generated_images[1].url, "", checked, sent)
        ELSE RefError(prompt, image_url, script, "Failed to get generated image",
                      checked, sent)

\* lines 474-504: the submission of the job that conditions on the upload
ReferenceSubmit(prompt, image_url, script, sent, trace) ==
    LET response == script.submit
        submitted == Append(trace, "POST /generations")
    IN  IF response.fault = "request"
        THEN RefError(prompt, image_url, script, "exception: request", submitted, sent)
        ELSE IF response.code # 200
        THEN RefError(prompt, image_url, script, StatusError(response.code), submitted, sent)
        ELSE IF response.fault = "decode" \/ ~Has(response.body, "sdGenerationJob")
        THEN RefError(prompt, image_url, script, "exception: decode", submitted, sent)
        ELSE ReferenceCheck(prompt, image_url, script, sent, submitted)

\* lines 461-472: fetch of the reference image and its direct upload
ReferenceUpload(prompt, image_url, script, sent, trace) ==
    LET image_response == script.fetch
        fetched == Append(trace, "GET image_url")
        s3_response == script.upload
        uploaded == Append(fetched, "POST upload")
    IN  IF image_response.fault = "request"
        THEN RefError(prompt, image_url, script, "exception: request", fetched, sent)
        ELSE IF image_response.code # 200
        THEN RefError(prompt, image_url, script,
                      "Failed to download image from Telegram", fetched, sent)
        ELSE IF s3_response.fault = "request"
        THEN RefError(prompt, image_url, script, "exception: request", uploaded, sent)
        ELSE IF ~UploadAccepted(s3_response)
        THEN RefError(prompt, image_url, script, "Failed to upload to S3", uploaded, sent)
        ELSE ReferenceSubmit(prompt, image_url, script, sent, uploaded)

generate_image_with_reference(prompt, image_url, script) ==
    IF script.reply = "fault"
    THEN RefError(prompt, image_url, script, "exception: reply", <<>>, <<>>)
    ELSE
      LET sent == <<Text("PROCESSING_REFERENCE", <<>>)>>
          upload_response == script.slot
          trace == <<"POST /init-image">>
      IN  IF upload_response.fault = "request"
          THEN RefError(prompt, image_url, script, "exception: request", trace, sent)
          ELSE IF upload_response.code # 200
          THEN RefError(prompt, image_url, script,
                        "Failed to get presigned URL from Leonardo", trace, sent)
          ELSE IF upload_response.fault = "decode" \/ ~Has(upload_response.body, "uploadInitImage")
          THEN RefError(prompt, image_url, script, "exception: decode", trace, sent)
          ELSE ReferenceUpload(prompt, image_url, script, sent, trace)

\* ------------------------------------------------------------ transitions
\* the refinement request made while an update was handled, and its answer
Improve(prompt, response) == [prompt |-> prompt, response |-> response]

NoImprove == Improve("", Response("none", 0, EmptyDict))

\* what a handler leaves behind: the state it returns, the session store,
\* the framework's context.user_data, the messages it sent, the refinement
\* request and the generation-client call it made
Outcome(state, ud, cud, sent, imp, gen) ==
    [state |-> state, user_data |-> ud, context_user_data |-> cud,
     out |-> sent, improved |-> imp, call |-> gen, raised |-> FALSE]

\* an exception escaped the handler: the conversation keeps its state
Raised(state, ud, cud, sent) ==
    [state |-> state, user_data |-> ud, context_user_data |-> cud,
     out |-> sent, improved |-> NoImprove, call |-> NoCall, raised |-> TRUE]

Session(ud, user_id) == Get(ud, user_id, EmptyDict)

start(ud, cud) ==
    Outcome(INITIAL_PROMPT, ud, cud, <<Text("WELCOME", <<>>)>>, NoImprove, NoCall)

\* mutant: the error text is matched without lower-casing it
IsTooLong_case_sensitive(error_msg) == Contains(TooLongNeedle, error_msg)

\* line 114: "too long" in error_msg.lower()
IsTooLong(error_msg) == Contains(TooLongNeedle, Lower(error_msg))

\* lines 115-119: the re-prompt that names the length of the prompt
TooLongReply(user_text) == Text("PROMPT_TOO_LONG", <<ToString(Len(user_text))>>)

\* mutant: the prompt is written into the session that is there
StorePrompt_in_place(ud, user_id, user_text) ==
    Put(ud, user_id, Put(Session(ud, user_id), "original_prompt", user_text))

\* line 101: the user's session is replaced by one that holds the prompt only
StorePrompt(ud, user_id, user_text) ==
    Put(ud, user_id, Put(EmptyDict, "original_prompt", user_text))

\* mutant: the refined prompt is shown but not kept
StoreEnhanced_forgets(session, enhanced_prompt) == session

\* line 127
StoreEnhanced(session, enhanced_prompt) == Put(session, "enhanced_prompt", enhanced_prompt)

handle_initial_prompt(ud, cud, user_id, user_text, response) ==
    LET stored == StorePrompt(ud, user_id, user_text)
        imp == Improve(user_text, response)
        failed == Outcome(INITIAL_PROMPT, stored, cud,
                          <<Text("ENHANCE_EXCEPTION_TRY_AGAIN", <<>>)>>, imp, NoCall)
    IN  IF response.fault = "request"
        THEN failed
        ELSE IF response.code # 200
        THEN IF response.fault = "decode"
             THEN failed
             ELSE LET error_msg == Get(response.body, "error", UnknownError)
                  IN  IF IsTooLong(error_msg)
                      THEN Outcome(INITIAL_PROMPT, stored, cud,
                                   <<TooLongReply(user_text)>>, imp, NoCall)
                      ELSE Outcome(INITIAL_PROMPT, stored, cud,
                                   <<Text("ENHANCE_TROUBLE_TRY_AGAIN", <<>>)>>, imp, NoCall)
        ELSE IF response.fault = "decode" \/ ~Has(response.body, "promptGeneration")
        THEN failed
        ELSE LET enhanced_prompt == response.body["promptGeneration"].prompt
             IN  Outcome(CHOOSING_PROMPT,
                         Put(stored, user_id,
                             StoreEnhanced(stored[user_id], enhanced_prompt)),
                         cud,
                         <<Text("ENHANCED_CHOOSE_1_2_3", <<user_text, enhanced_prompt>>)>>,
                         imp, NoCall)

\* mutant: the photo goes out with the bare caption of the other handler
GeneratedReply_bare_caption(image_url) == Photo(image_url, "GENERATED_IMAGE")

\* lines 329-337: the photo whose caption offers "try again" / "modify"
GeneratedReply(image_url) == Photo(image_url, "GENERATED_RETRY_MODIFY_1_2")

\* mutant: the stored reference image is not looked at
UsesReference_never(user_data) == FALSE

\* line 315: the session holds a reference image
UsesReference(user_data) == Has(user_data, "reference_image")

\* mutant: a failed generation stays in the state of the other handler
FailedGenerationState_generating == GENERATING_IMAGE

\* lines 346, 356: the state returned after a failed generation
FailedGenerationState == ITERATING_IMAGE

start_image_generation(ud, cud, user_id, script, ref_script) ==
    LET user_data == Session(ud, user_id)
        failure == Text("GENERATION_ERROR_RETRY_MODIFY_1_2", <<>>)
    IN  IF ~Has(user_data, "final_prompt")
        THEN Outcome(FailedGenerationState, ud, cud, <<failure>>, NoImprove, NoCall)
        ELSE
          LET result ==
                IF UsesReference(user_data)
                THEN generate_image_with_reference(
                         user_data["final_prompt"],
                         user_data["reference_image"].file_path, ref_script)
                ELSE generate_image(user_data["final_prompt"], script)
          IN  IF result.status = "success"
              THEN Outcome(ITERATING_IMAGE, ud, cud,
                           Append(result.sent, GeneratedReply(result.url)),
                           NoImprove, result)
              ELSE Outcome(FailedGenerationState, ud, cud, Append(result.sent, failure),
                           NoImprove, result)

\* lines 227-278: a handler no state of main() is given; it stores the image,
\* sends it and then asks the 3-way follow-up
handle_image_generation(ud, cud, user_id, script, ref_script) ==
    LET user_data == Session(ud, user_id)
        failure == Text("GENERATION_ERROR_RETRY_MODIFY_1_2", <<>>)
    IN  IF ~Has(user_data, "final_prompt")
        THEN Outcome(GENERATING_IMAGE, ud, cud, <<failure>>, NoImprove, NoCall)
        ELSE
          LET result ==
                IF Has(user_data, "reference_image")
                THEN generate_image_with_reference(
                         user_data["final_prompt"],
                         user_data["reference_image"].file_path, ref_script)
                ELSE generate_image(user_data["final_prompt"], script)
          IN  IF result.status = "success" /\ Has(ud, user_id)
              THEN Outcome(ITERATING_IMAGE,
                           Put(ud, user_id,
                               Put(ud[user_id], "generated_images", <<result.url>>)),
                           cud,
                           result.sent \o <<Photo(result.url, "GENERATED_IMAGE"),
                                            Text("FOLLOW_UP_USE_VARIATIONS_MODIFY_1_2_3", <<>>)>>,
                           NoImprove, result)
              ELSE Outcome(GENERATING_IMAGE, ud, cud, Append(result.sent, failure),
                           NoImprove, result)

\* lines 154, 189: the inputs the prompt and reference choices accept
PromptChoices == {"1", "2", "3"}
ReferenceChoices == {"1", "2"}

\* mutant: the 3-way follow-up's "3" is let through
IterationChoices_with_3 == {"1", "2", "3"}

\* line 285: the inputs the follow-up choice accepts
IterationChoices == {"1", "2"}

\* mutant: the two prompts are taken the wrong way round
ChosenPrompt_swapped(session, user_choice) ==
    IF user_choice = "1" THEN session["original_prompt"] ELSE session["enhanced_prompt"]

\* mutant: the enhanced prompt is taken whatever the choice
ChosenPrompt_always_enhanced(session, user_choice) == session["enhanced_prompt"]

\* line 172: the prompt that "1" (enhanced) or "3" (original) selects
ChosenPrompt(session, user_choice) ==
    IF user_choice = "1" THEN session["enhanced_prompt"] ELSE session["original_prompt"]

\* mutant: the chosen prompt is not stored
StoreFinalPrompt_forgets(session, chosen_prompt) == session

\* line 173
StoreFinalPrompt(session, chosen_prompt) == Put(session, "final_prompt", chosen_prompt)

\* mutant: the refinement is run again on its own previous output
RetryText_enhanced(session) == session["enhanced_prompt"]

\* line 165: the text "2" sends to the refinement again
RetryText(session) == session["original_prompt"]

handle_prompt_choice(ud, cud, user_id, user_choice, response) ==
    IF user_choice \notin PromptChoices
    THEN Outcome(CHOOSING_PROMPT, ud, cud, <<Text("REASK_PROMPT_CHOICE_1_2_3", <<>>)>>,
                 NoImprove, NoCall)
    ELSE IF user_choice = "2"
    THEN IF ~Has(ud, user_id) \/ ~Has(Session(ud, user_id), "original_prompt")
         THEN Raised(CHOOSING_PROMPT, ud, cud, <<>>)
         ELSE LET original_prompt == RetryText(ud[user_id])
              IN  handle_initial_prompt(
                      ud,
                      Put(cud, user_id,
                          Put(Session(cud, user_id), "original_text", original_prompt)),
                      user_id, original_prompt, response)
    ELSE LET key == IF user_choice = "1" THEN "enhanced_prompt" ELSE "original_prompt"
         IN  IF ~Has(ud, user_id) \/ ~Has(Session(ud, user_id), key)
             THEN Raised(CHOOSING_PROMPT, ud, cud, <<>>)
             ELSE Outcome(REFERENCE_CHOICE,
                          Put(ud, user_id,
                              StoreFinalPrompt(ud[user_id],
                                               ChosenPrompt(ud[user_id], user_choice))),
                          cud, <<Text("ASK_REFERENCE_1_2", <<>>)>>, NoImprove, NoCall)

handle_reference_choice(ud, cud, user_id, user_choice, script, ref_script) ==
    IF user_choice \notin ReferenceChoices
    THEN Outcome(REFERENCE_CHOICE, ud, cud, <<Text("REASK_REFERENCE_1_2", <<>>)>>,
                 NoImprove, NoCall)
    ELSE IF user_choice = "1"
    THEN Outcome(AWAITING_REFERENCE, ud, cud, <<Text("UPLOAD_REFERENCE", <<>>)>>,
                 NoImprove, NoCall)
    ELSE start_image_generation(ud, cud, user_id, script, ref_script)

\* context.bot.get_file: the location Telegram serves the file from
FilePath(file_id) == "https://api.telegram.org/file/" \o file_id

\* mutant: only the user's entry is looked for, not the prompt in it
LostPrompt_only_missing_user(ud, user_id) == ~Has(ud, user_id)

\* line 208: the session is gone or holds no final prompt
LostPrompt(ud, user_id) ==
    ~Has(ud, user_id) \/ ~Has(Session(ud, user_id), "final_prompt")

handle_reference_image(ud, cud, user_id, sizes, file_ok, script, ref_script) ==
    IF LostPrompt(ud, user_id)
    THEN Outcome(INITIAL_PROMPT, ud, cud, <<Text("LOST_PROMPT_START_OVER", <<>>)>>,
                 NoImprove, NoCall)
    ELSE LET photo == sizes[Len(sizes)]
         IN  IF ~file_ok
             THEN Raised(AWAITING_REFERENCE, ud, cud, <<>>)
             ELSE start_image_generation(
                      Put(ud, user_id,
                          Put(ud[user_id], "reference_image",
                              [file_id |-> photo.file_id,
                               file_path |-> FilePath(photo.file_id)])),
                      cud, user_id, script, ref_script)

\* mutant: only the prompts are dropped, the reference image stays
ResetSession_keeps_reference(session) ==
    [k \in (DOMAIN session) \cap {"original_prompt", "reference_image"} |-> session[k]]

\* lines 298-299: the session "modify the prompt" leaves behind
ResetSession(session) ==
    Put(EmptyDict, "original_prompt", Get(session, "original_prompt", ""))

handle_image_iteration(ud, cud, user_id, user_choice, script, ref_script) ==
    IF user_choice \notin IterationChoices
    THEN Outcome(ITERATING_IMAGE, ud, cud, <<Text("REASK_ITERATION_1_2", <<>>)>>,
                 NoImprove, NoCall)
    ELSE IF user_choice = "1"
    THEN start_image_generation(ud, cud, user_id, script, ref_script)
    ELSE IF ~Has(ud, user_id)
    THEN Raised(ITERATING_IMAGE, ud, cud, <<>>)
    ELSE Outcome(INITIAL_PROMPT, Put(ud, user_id, ResetSession(ud[user_id])),
                 cud, <<Text("ASK_NEW_PROMPT", <<>>)>>, NoImprove, NoCall)

\* mutant: cancel hands the conversation back to the first state
cancel_restarts(ud, cud) ==
    Outcome(INITIAL_PROMPT, ud, cud, <<Text("CANCELLED", <<>>)>>, NoImprove, NoCall)

cancel(ud, cud) ==
    Outcome(END, ud, cud, <<Text("CANCELLED", <<>>)>>, NoImprove, NoCall)

\* ----------------------------------------------------------------- routing
\* filters.TEXT & ~filters.COMMAND, filters.PHOTO, filters.ALL & ~filters.COMMAND
\* lines 559-578: the handlers main() registers for each state, each with the
\* kinds of update its filter lets through (a command passes none of them)
states ==
    { [state |-> INITIAL_PROMPT, kinds |-> {"text"}, handler |-> "handle_initial_prompt"],
      [state |-> CHOOSING_PROMPT, kinds |-> {"text"}, handler |-> "handle_prompt_choice"],
      [state |-> REFERENCE_CHOICE, kinds |-> {"text"}, handler |-> "handle_reference_choice"],
      [state |-> AWAITING_REFERENCE, kinds |-> {"photo"}, handler |-> "handle_reference_image"],
      [state |-> GENERATING_IMAGE, kinds |-> {"text", "photo"},
       handler |-> "start_image_generation"],
      [state |-> ITERATING_IMAGE, kinds |-> {"text"}, handler |-> "handle_image_iteration"] }

\* mutant: the reference state takes any message that is not a command
StateHandler_reference_any(state, upd) ==
    CASE state = INITIAL_PROMPT /\ upd.kind = "text" -> "handle_initial_prompt"
      [] state = CHOOSING_PROMPT /\ upd.kind = "text" -> "handle_prompt_choice"
      [] state = REFERENCE_CHOICE /\ upd.kind = "text" -> "handle_reference_choice"
      [] state = AWAITING_REFERENCE /\ upd.kind # "command" -> "handle_reference_image"
      [] state = GENERATING_IMAGE /\ upd.kind # "command" -> "start_image_generation"
      [] state = ITERATING_IMAGE /\ upd.kind = "text" -> "handle_image_iteration"
      [] OTHER -> "none"

\* the first handler of the state whose filter lets the update through
StateHandler(state, upd) ==
    CASE state = INITIAL_PROMPT /\ upd.kind = "text" -> "handle_initial_prompt"
      [] state = CHOOSING_PROMPT /\ upd.kind = "text" -> "handle_prompt_choice"
      [] state = REFERENCE_CHOICE /\ upd.kind = "text" -> "handle_reference_choice"
      [] state = AWAITING_REFERENCE /\ upd.kind = "photo" -> "handle_reference_image"
      [] state = GENERATING_IMAGE /\ upd.kind # "command" -> "start_image_generation"
      [] state = ITERATING_IMAGE /\ upd.kind = "text" -> "handle_image_iteration"
      [] OTHER -> "none"

\* the handler the ConversationHandler of main() gives an update to
conv_handler(state, upd) ==
    IF state = END
    THEN IF upd.kind = "command" /\ upd.text = "/start" THEN "start" ELSE "none"
    ELSE IF StateHandler(state, upd) # "none"
    THEN StateHandler(state, upd)
    ELSE IF upd.kind = "command" /\ upd.text = "/cancel" THEN "cancel" ELSE "none"

\* ------------------------------------------------- scripts of a mock job
GenScript(reply, submit, polls) == [reply |-> reply, submit |-> submit, polls |-> polls]

RefScript(reply, slot, fetch, upload, submit, check) ==
    [reply |-> reply, slot |-> slot, fetch |-> fetch, upload |-> upload,
     submit |-> submit, check |-> check]

\* the answers to status checks 1, 2, ...: `hit` on check k, fillers before
\* it (f1 on odd checks, f2 on even ones), `after` on every later check
MkPolls(k, f1, f2, hit, after) ==
    [i \in 1..(max_attempts + 1) |->
        IF i < k THEN (IF i % 2 = 1 THEN f1 ELSE f2)
        ELSE IF i = k THEN hit ELSE after]

\* answers that do not report completion with an image
Fillers == {PollPending, PollNon2xx, PollCompleteEmpty, PollNoJob}

Hits == {PollComplete(Image1), PollComplete(Image2), PollPendingWithImage(Image1),
         PollBadJson, NetError}

Afters == {PollPending, PollComplete(Image2)}

SubmitResponses == {SubmitOk, SubmitRejected, SubmitNoJob, NetError}

AllGenScripts ==
    {GenScript("ok", SubmitOk, MkPolls(k, f1, f2, hit, after)) :
        k \in 1..(max_attempts + 1), f1 \in Fillers, f2 \in Fillers,
        hit \in Hits, after \in Afters}
    \cup {GenScript(reply, submit, MkPolls(1, PollPending, PollPending, PollComplete(Image1), PollPending)) :
        reply \in {"ok", "fault"}, submit \in SubmitResponses}

AllRefScripts ==
    {RefScript(reply, slot, fetch, upload, submit, check) :
        reply \in {"ok", "fault"},
        slot \in {SlotOk, SlotRejected, SlotNoImage, NetError},
        fetch \in {FetchOk, FetchMissing, NetError},
        upload \in {UploadOk, UploadOk200, UploadForbidden, NetError},
        submit \in SubmitResponses,
        check \in {PollComplete(Image1), PollPendingWithImage(Image2), PollPending,
                   PollCompleteEmpty, PollNon2xx, PollBadJson, NetError}}

\* the mock jobs the conversation is run against
ConvGenScripts ==
    { GenScript("ok", SubmitOk, MkPolls(1, PollPending, PollPending, PollComplete(Image1), PollPending)),
      GenScript("ok", SubmitOk, MkPolls(2, PollNon2xx, PollPending, PollComplete(Image2), PollPending)),
      GenScript("ok", SubmitOk, MkPolls(max_attempts + 1, PollPending, PollNon2xx, PollPending, PollPending)),
      GenScript("ok", SubmitRejected, MkPolls(1, PollPending, PollPending, PollPending, PollPending)),
      GenScript("ok", SubmitNoJob, MkPolls(1, PollPending, PollPending, PollPending, PollPending)),
      GenScript("ok", SubmitOk, MkPolls(2, PollPending, PollPending, NetError, PollPending)) }

ConvRefScripts ==
    { RefScript("ok", SlotOk, FetchOk, UploadOk, SubmitOk, PollComplete(Image2)),
      RefScript("ok", SlotOk, FetchOk, UploadForbidden, SubmitOk, PollComplete(Image2)),
      RefScript("ok", SlotOk, FetchOk, UploadOk, SubmitOk, PollPending),
      RefScript("ok", SlotRejected, FetchOk, UploadOk, SubmitOk, PollComplete(Image2)),
      RefScript("ok", SlotOk, FetchMissing, UploadOk, SubmitOk, PollComplete(Image2)) }

\* ------------------------------------------------------------------- state
VARIABLES
    user_data,          \* ContentGenerationBot.user_data: user id -> session dict
    context_user_data,  \* context.user_data of the framework, per user
    conv,               \* the ConversationHandler's state of each user's conversation
    out,                \* per user: the messages the last handler run for them sent
    update,             \* the update dispatched last and the handler it went to
    improved,           \* the refinement request made for that update, if any
    call,               \* the generation-client call made for that update, if any
    update_queue,       \* Application.update_queue: updates received, not yet dispatched
    running,            \* the updates whose handler has been entered and has not returned
    received            \* how many updates have been received so far

vars == <<user_data, context_user_data, conv, out, update, improved, call,
          update_queue, running, received>>

dispatch == <<update_queue, running, received>>

NoUpdate == [user |-> 0, kind |-> "none", text |-> "", photo |-> NoSizes,
             handler |-> "none", raised |-> FALSE]

Init ==
    /\ user_data = EmptyDict
    /\ context_user_data = EmptyDict
    /\ conv = [u \in Users |-> END]
    /\ out = [u \in Users |-> <<>>]
    /\ update = NoUpdate
    /\ improved = NoImprove
    /\ call = NoCall
    /\ update_queue = <<>>
    /\ running = {}
    /\ received = 0

Commit(u, upd, handler, r) ==
    /\ conv' = [conv EXCEPT ![u] = r.state]
    /\ user_data' = r.user_data
    /\ context_user_data' = r.context_user_data
    /\ out' = [out EXCEPT ![u] = r.out]
    /\ improved' = r.improved
    /\ call' = r.call
    /\ update' = [user |-> u, kind |-> upd.kind, text |-> upd.text, photo |-> upd.photo,
                  handler |-> handler, raised |-> r.raised]

\* one update of user u, routed by conv_handler and handled to the end
Deliver(u, upd) ==
    LET handler == conv_handler(conv[u], upd)
        ud == user_data
        cud == context_user_data
    IN  CASE handler = "start" -> Commit(u, upd, handler, start(ud, cud))
          [] handler = "cancel" -> Commit(u, upd, handler, cancel(ud, cud))
          [] handler = "handle_initial_prompt" ->
                \E response \in ImproveResponses :
                    Commit(u, upd, handler,
                           handle_initial_prompt(ud, cud, u, upd.text, response))
          [] handler = "handle_prompt_choice" ->
                \E response \in ImproveResponses :
                    Commit(u, upd, handler,
                           handle_prompt_choice(ud, cud, u, upd.text, response))
          [] handler = "handle_reference_choice" ->
                \E script \in ConvGenScripts, ref_script \in ConvRefScripts :
                    Commit(u, upd, handler,
                           handle_reference_choice(ud, cud, u, upd.text, script, ref_script))
          [] handler = "handle_reference_image" ->
                \E file_ok \in BOOLEAN, script \in ConvGenScripts, ref_script \in ConvRefScripts :
                    Commit(u, upd, handler,
                           handle_reference_image(ud, cud, u, upd.photo, file_ok,
                                                  script, ref_script))
          [] handler = "handle_image_iteration" ->
                \E script \in ConvGenScripts, ref_script \in ConvRefScripts :
                    Commit(u, upd, handler,
                           handle_image_iteration(ud, cud, u, upd.text, script, ref_script))
          [] handler = "start_image_generation" ->
                \E script \in ConvGenScripts, ref_script \in ConvRefScripts :
                    Commit(u, upd, handler,
                           start_image_generation(ud, cud, u, script, ref_script))
          [] OTHER ->
                Commit(u, upd, "none",
                       Outcome(conv[u], ud, cud, out[u], NoImprove, NoCall))

TextMessage(u) ==
    /\ \E t \in Texts : Deliver(u, TextUpdate(t))
    /\ UNCHANGED dispatch

PhotoMessage(u) ==
    /\ \E p \in PhotoUpdates : Deliver(u, PhotoUpdate(p))
    /\ UNCHANGED dispatch

Command(u) ==
    /\ \E c \in Commands : Deliver(u, CommandUpdate(c))
    /\ UNCHANGED dispatch

Next == \E u \in Users : TextMessage(u) \/ PhotoMessage(u) \/ Command(u)

Spec == Init /\ [][Next]_vars

\* the generation client called on its own against a mock job
GenerateCall ==
    /\ call = NoCall
    /\ \E script \in AllGenScripts : call' = generate_image(FrogPrompt, script)
    /\ UNCHANGED <<user_data, context_user_data, conv, out, update, improved>>
    /\ UNCHANGED dispatch

GenerateWithReferenceCall ==
    /\ call = NoCall
    /\ \E script \in AllRefScripts :
          call' = generate_image_with_reference(FrogPrompt, FilePath("full"), script)
    /\ UNCHANGED <<user_data, context_user_data, conv, out, update, improved>>
    /\ UNCHANGED dispatch

ClientNext == GenerateCall \/ GenerateWithReferenceCall

ClientSpec == Init /\ [][ClientNext]_vars

\* the transitions over any session store: user_data is an attribute of the bot
\* keyed by the user alone (lines 54, 101), it is not the conversation's own
\* record, so each handler is written for a session that may lack any field
\* (lines 208, 308, 298)
StoredValue(k) ==
    CASE k = "original_prompt" -> FrogPrompt
      [] k = "enhanced_prompt" -> "enhanced#1"
      [] k = "final_prompt" -> FrogPrompt
      [] k = "reference_image" -> [file_id |-> "full", file_path |-> FilePath("full")]

Sessions ==
    { [k \in ks |-> StoredValue(k)] :
        ks \in SUBSET {"original_prompt", "enhanced_prompt", "final_prompt", "reference_image"} }

Stores == UNION { [us -> Sessions] : us \in SUBSET Users }

\* the states a registered handler returns
LiveStates == {INITIAL_PROMPT, CHOOSING_PROMPT, REFERENCE_CHOICE, AWAITING_REFERENCE,
               ITERATING_IMAGE}

StoreInit ==
    /\ user_data \in Stores
    /\ context_user_data = EmptyDict
    /\ conv \in [Users -> LiveStates]
    /\ out = [u \in Users |-> <<>>]
    /\ update = NoUpdate
    /\ improved = NoImprove
    /\ call = NoCall
    /\ update_queue = <<>>
    /\ running = {}
    /\ received = 0

StoreSpec == StoreInit /\ [][Next]_vars

\* ---------------------------------------------------------------- dispatch
\* main() builds the Application with the builder's defaults and registers the
\* one ConversationHandler: the updates polled from Telegram are queued and the
\* application takes them off the queue one after the other, entering the
\* handler of an update and waiting for it to return before it takes the next.
\* Inside a handler the refinement and generation requests are blocking
\* requests.post / requests.get calls and time.sleep(20) (lines 105, 378, 399,
\* 467, 497, 506, 507): the thread of the event loop stays in them.
NumSenders == 2
MaxQueue == 2
MaxUpdates == 6

Senders == 1..NumSenders

DispatchUpdates ==
    { CommandUpdate("/start"), CommandUpdate("/cancel"),
      TextUpdate(FrogPrompt), TextUpdate("1"), TextUpdate("2") }

DispatchInit ==
    /\ user_data = EmptyDict
    /\ context_user_data = EmptyDict
    /\ conv = [u \in Senders |-> END]
    /\ out = [u \in Senders |-> <<>>]
    /\ update = NoUpdate
    /\ improved = NoImprove
    /\ call = NoCall
    /\ update_queue = <<>>
    /\ running = {}
    /\ received = 0

\* an update of user u arrives from Telegram
Receive(u, upd) ==
    /\ received < MaxUpdates
    /\ Len(update_queue) < MaxQueue
    /\ update_queue' = Append(update_queue, [user |-> u, upd |-> upd])
    /\ received' = received + 1
    /\ UNCHANGED <<user_data, context_user_data, conv, out, update, improved, call, running>>

\* mutant: updates are handled concurrently
Idle_concurrent_updates == TRUE

\* line 553: no concurrent_updates is set, the handler of one update has
\* returned before the next update is taken
Idle == running = {}

\* the application takes the next update and enters its handler
Begin ==
    /\ update_queue # <<>>
    /\ Idle
    /\ running' = running \cup {Head(update_queue)}
    /\ update_queue' = Tail(update_queue)
    /\ UNCHANGED <<user_data, context_user_data, conv, out, update, improved, call, received>>

\* a handler that was entered runs to its return
Finish ==
    \E t \in running :
        /\ Deliver(t.user, t.upd)
        /\ running' = running \ {t}
        /\ UNCHANGED <<update_queue, received>>

DispatchNext ==
    \/ \E u \in Senders, upd \in DispatchUpdates : Receive(u, upd)
    \/ Begin
    \/ Finish

DispatchSpec == DispatchInit /\ [][DispatchNext]_vars

TypeOK ==
    /\ conv \in [Users -> States \cup {END}]
    /\ DOMAIN user_data \subseteq Users

\* ------------------------------------------------------------------ claims
\* the step taken handles this text message of user u
TextStep(u, t) == update'.user = u /\ update'.kind = "text" /\ update'.text = t

CommandStep(u, c) == update'.user = u /\ update'.kind = "command" /\ update'.text = c

\* the number of status checks a client call made
NumChecks(trace) == Cardinality({i \in DOMAIN trace : trace[i] = "GET /generations/id"})

\* C1: in every reachable state, a session whose conversation state is
\* ReferenceChoice, AwaitingReference, GeneratingImage or IteratingImage
\* has final_prompt defined.
C1_FinalPromptDefined ==
    \A u \in Users :
        conv[u] \in {REFERENCE_CHOICE, AWAITING_REFERENCE, GENERATING_IMAGE, ITERATING_IMAGE}
            => Has(user_data, u) /\ Has(Session(user_data, u), "final_prompt")

C1_Witness ==
    \E u \in Users :
        /\ conv[u] = ITERATING_IMAGE
        /\ update.handler = "handle_reference_image"
        /\ call.status = "success"
        /\ Has(Session(user_data, u), "final_prompt")

\* the choice-gated states and the choice set the specification gives each
ChoiceGated == {CHOOSING_PROMPT, REFERENCE_CHOICE, ITERATING_IMAGE}

EnumeratedChoices(state) ==
    IF state = CHOOSING_PROMPT THEN {"1", "2", "3"} ELSE {"1", "2"}

ReaskText(state) ==
    CASE state = CHOOSING_PROMPT -> Text("REASK_PROMPT_CHOICE_1_2_3", <<>>)
      [] state = REFERENCE_CHOICE -> Text("REASK_REFERENCE_1_2", <<>>)
      [] state = ITERATING_IMAGE -> Text("REASK_ITERATION_1_2", <<>>)

InvalidChoiceStep(u) ==
    /\ conv[u] \in ChoiceGated
    /\ \E t \in Texts \ EnumeratedChoices(conv[u]) : TextStep(u, t)

\* the prompt text of the last message of a handler run
PromptText(msgs) == [id |-> msgs[Len(msgs)].id, args |-> msgs[Len(msgs)].args]

\* C2 (as amended): in every choice-gated state a text input outside the
\* state's choice set leaves the conversation state, the session store and
\* context.user_data unchanged, and the bot answers with that state's fixed
\* re-ask text, which is not the text shown when the state was entered.
C2_InvalidChoiceReasks ==
    [][\A u \in Users :
          InvalidChoiceStep(u) =>
              /\ conv'[u] = conv[u]
              /\ user_data' = user_data
              /\ context_user_data' = context_user_data
              /\ out'[u] = <<ReaskText(conv[u])>>
              /\ call' = NoCall /\ improved' = NoImprove]_vars

C2_Witness ==
    \E u \in Users :
        /\ conv[u] = ITERATING_IMAGE
        /\ update.user = u /\ update.kind = "text" /\ update.text = "3"
        /\ update.handler = "handle_image_iteration"
        /\ out[u] = <<Text("REASK_ITERATION_1_2", <<>>)>>

\* C2 as stated: the invalid input leaves state and session unchanged and the
\* bot re-emits the prompt text it showed last, the one the state was entered
\* with (or an earlier re-emission of it).
C2_Original ==
    [][\A u \in Users :
          (InvalidChoiceStep(u) /\ out[u] # <<>>) =>
              /\ conv'[u] = conv[u]
              /\ user_data' = user_data
              /\ out'[u] # <<>>
              /\ PromptText(out'[u]) = PromptText(out[u])]_vars

\* C3: "2" in IteratingImage moves the conversation to InitialPrompt, keeps
\* original_prompt at its value and leaves no enhanced_prompt, final_prompt,
\* reference_image or generated_images in the session.
C3_ModifyPromptResets ==
    [][\A u \in Users :
          (conv[u] = ITERATING_IMAGE /\ TextStep(u, "2")) =>
              /\ conv'[u] = INITIAL_PROMPT
              /\ Has(user_data, u) /\ Has(user_data', u)
              /\ Has(user_data[u], "original_prompt")
              /\ Has(user_data'[u], "original_prompt")
              /\ user_data'[u]["original_prompt"] = user_data[u]["original_prompt"]
              /\ DOMAIN user_data'[u] = {"original_prompt"}]_vars

C3_Witness ==
    \E u \in Users :
        /\ update.user = u /\ update.kind = "text" /\ update.text = "2"
        /\ update.handler = "handle_image_iteration"
        /\ conv[u] = INITIAL_PROMPT
        /\ DOMAIN user_data[u] = {"original_prompt"}
        /\ user_data[u]["original_prompt"] = FrogPrompt

\* the answers that report COMPLETE with one image
CompleteAnswers == {PollComplete(Image1), PollComplete(Image2)}

\* the answers that arrive and do not report completion with an image:
\* pending (with or without a stray image), complete without an image, a
\* body without the job, and a non-2xx status
NotCompleteAnswers ==
    {PollPending, PollPendingWithImage(Image1), PollPendingWithImage(Image2),
     PollCompleteEmpty, PollNoJob, PollNon2xx}

\* the mock job answers checks 1..k-1 without completion and check k with
\* COMPLETE and one image
FirstCompleteOn(polls, k) ==
    /\ polls[k] \in CompleteAnswers
    /\ \A j \in 1..(k - 1) : polls[j] \in NotCompleteAnswers

\* submission, then k status checks with one 2-second wait between
\* consecutive checks and nothing after the k-th check
ChecksSpacedBy2(k) ==
    [i \in 1..(2 * k) |->
        IF i = 1 THEN "POST /generations"
        ELSE IF i % 2 = 0 THEN "GET /generations/id" ELSE "sleep 2"]

ScratchCallSubmitted ==
    /\ call.fn = "generate_image"
    /\ call.script.reply = "ok"
    /\ call.script.submit = SubmitOk

\* C4: for every k in 1..30, if the job first reports COMPLETE with one image
\* on status check k, generate_image returns success with that image after
\* exactly k checks, one 2-second wait between consecutive checks and no
\* check after the successful one.
C4_SuccessOnCheckK ==
    \A k \in 1..30 :
        (ScratchCallSubmitted /\ FirstCompleteOn(call.script.polls, k)) =>
            /\ call.status = "success"
            /\ call.url = call.script.polls[k].body["generations_by_pk"].generated_images[1].url
            /\ NumChecks(call.trace) = k
            /\ call.trace = ChecksSpacedBy2(k)

C4_Witness ==
    /\ ScratchCallSubmitted
    /\ FirstCompleteOn(call.script.polls, 30)
    /\ call.script.polls[29] = PollNon2xx
    /\ call.status = "success"
    /\ call.url = Image2
    /\ NumChecks(call.trace) = 30

\* C5: if every one of the 30 status checks is answered without completion
\* with an image (non-2xx answers included), generate_image makes exactly 30
\* checks and returns the timed-out error; no call makes a 31st check.
C5_TimesOutAfter30 ==
    /\ call.fn = "generate_image" => NumChecks(call.trace) <= 30
    /\ (ScratchCallSubmitted /\ \A i \in 1..30 : call.script.polls[i] \in NotCompleteAnswers) =>
            /\ call.status = "error"
            /\ call.error = "Generation timed out or failed to complete"
            /\ NumChecks(call.trace) = 30

C5_Witness ==
    /\ ScratchCallSubmitted
    /\ \A i \in 1..30 : call.script.polls[i] \in {PollNon2xx, PollCompleteEmpty}
    /\ call.script.polls[31] = PollComplete(Image1)
    /\ call.status = "error"
    /\ NumChecks(call.trace) = 30

\* C6: in generate_image_with_reference, a direct upload answered with a
\* status other than 204 makes the call return the upload-failed error, and
\* POST /generations is not called during that call.
C6_UploadRejectedNoSubmission ==
    ( /\ call.fn = "generate_image_with_reference"
      /\ call.script.reply = "ok"
      /\ call.script.slot = SlotOk
      /\ call.script.fetch = FetchOk
      /\ call.script.upload.fault = "none"
      /\ call.script.upload.code # 204 ) =>
        /\ call.status = "error"
        /\ call.error = "Failed to upload to S3"
        /\ "POST upload" \in Range(call.trace)
        /\ "POST /generations" \notin Range(call.trace)

C6_Witness ==
    /\ call.fn = "generate_image_with_reference"
    /\ call.script.upload = UploadOk200
    /\ call.script.submit = SubmitOk
    /\ call.error = "Failed to upload to S3"
    /\ call.trace = <<"POST /init-image", "GET image_url", "POST upload">>

\* the last step of the scenario: the session holds the frog prompt, its
\* enhancement e and final_prompt = e (the user replied "1"), the user
\* replies "2" to the reference question and the job the call is run
\* against completes on the first status check with image url
ScenarioLastStep(u, e, url) ==
    /\ conv[u] = REFERENCE_CHOICE
    /\ Has(user_data, u)
    /\ user_data[u] = [original_prompt |-> FrogPrompt, enhanced_prompt |-> e, final_prompt |-> e]
    /\ TextStep(u, "2")
    /\ call'.fn = "generate_image"
    /\ call'.script.reply = "ok"
    /\ call'.script.submit = SubmitOk
    /\ call'.script.polls[1] = PollComplete(url)

\* C7 (as amended): at the end of the scenario the bot has sent the progress
\* notice and photo U, whose caption is the 2-choice follow-up (try again /
\* modify the prompt), the job was submitted with the enhanced prompt and
\* the conversation state is IteratingImage.
C7_ScenarioEndsIterating ==
    [][\A u \in Users, e \in EnhancedPrompts, url \in {Image1, Image2} :
          ScenarioLastStep(u, e, url) =>
              /\ conv'[u] = ITERATING_IMAGE
              /\ call'.prompt = e
              /\ call'.status = "success" /\ call'.url = url
              /\ out'[u] = <<Text("GENERATING", <<>>),
                             Photo(url, "GENERATED_RETRY_MODIFY_1_2")>>]_vars

C7_Witness ==
    \E u \in Users :
        /\ conv[u] = ITERATING_IMAGE
        /\ update.user = u /\ update.text = "2"
        /\ update.handler = "handle_reference_choice"
        /\ user_data[u] = [original_prompt |-> FrogPrompt,
                           enhanced_prompt |-> "enhanced#1", final_prompt |-> "enhanced#1"]
        /\ call.status = "success" /\ call.url = Image1
        /\ NumChecks(call.trace) = 1
        /\ out[u][Len(out[u])] = Photo(Image1, "GENERATED_RETRY_MODIFY_1_2")

\* C7 as stated: at the end of the scenario the bot has sent photo U and the
\* 3-choice follow-up, and the state is IteratingImage.
C7_Original ==
    [][\A u \in Users, e \in EnhancedPrompts, url \in {Image1, Image2} :
          ScenarioLastStep(u, e, url) =>
              /\ conv'[u] = ITERATING_IMAGE
              /\ \E i \in DOMAIN out'[u] :
                    out'[u][i].kind = "photo" /\ out'[u][i].photo = url
              /\ \E i \in DOMAIN out'[u] :
                    out'[u][i].id = "FOLLOW_UP_USE_VARIATIONS_MODIFY_1_2_3"]_vars

\* the answers by which the refinement service rejects a prompt as too long
TooLongRejections == {ImproveError(400, ErrTooLongMixed), ImproveError(400, ErrTooLongLower)}

\* C8: when the refinement service rejects the prompt as too long, the bot
\* has re-prompted with one message that carries the character count of the
\* submitted prompt, the state is InitialPrompt and the session holds
\* neither enhanced_prompt nor final_prompt.
C8_TooLongReprompts ==
    improved.response \in TooLongRejections =>
        \E u \in Users :
            /\ update.user = u
            /\ conv[u] = INITIAL_PROMPT
            /\ Len(out[u]) = 1
            /\ out[u][1].kind = "text"
            /\ ToString(Len(improved.prompt)) \in Range(out[u][1].args)
            /\ (improved.prompt = LongPrompt => "250" \in Range(out[u][1].args))
            /\ ~Has(Session(user_data, u), "enhanced_prompt")
            /\ ~Has(Session(user_data, u), "final_prompt")

C8_Witness ==
    \E u \in Users :
        /\ update.user = u /\ update.text = LongPrompt
        /\ update.handler = "handle_initial_prompt"
        /\ improved = Improve(LongPrompt, ImproveError(400, ErrTooLongMixed))
        /\ conv[u] = INITIAL_PROMPT
        /\ out[u] = <<Text("PROMPT_TOO_LONG", <<"250">>)>>

\* the answers with which improve() fails
ImproveFailures == ImproveResponses \ {ImproveOk(e) : e \in EnhancedPrompts}

\* the update handled last was u's and its refinement request failed
RefinementJustFailed(u) ==
    /\ update.user = u
    /\ improved # NoImprove
    /\ improved.response \in ImproveFailures

\* C9 (as amended): after a failed improve the conversation is in
\* InitialPrompt and the next input "3" is taken as a new prompt:
\* original_prompt becomes "3" and final_prompt stays unset.  final_prompt is
\* set to exactly original_prompt when "3" is chosen in ChoosingPrompt, the
\* state a successful improve leads to.
C9_UseOriginalAfterSuccessOnly ==
    [][\A u \in Users :
          /\ (RefinementJustFailed(u) /\ TextStep(u, "3")) =>
                /\ conv[u] = INITIAL_PROMPT
                /\ update'.handler = "handle_initial_prompt"
                /\ user_data'[u]["original_prompt"] = "3"
                /\ ~Has(user_data'[u], "final_prompt")
          /\ (conv[u] = CHOOSING_PROMPT /\ TextStep(u, "3")) =>
                /\ conv'[u] = REFERENCE_CHOICE
                /\ Has(user_data'[u], "final_prompt")
                /\ user_data'[u]["final_prompt"] = user_data[u]["original_prompt"]
                /\ user_data'[u]["original_prompt"] = user_data[u]["original_prompt"]]_vars

C9_Witness ==
    \E u \in Users :
        /\ update.user = u /\ update.text = "3"
        /\ update.handler = "handle_prompt_choice"
        /\ conv[u] = REFERENCE_CHOICE
        /\ user_data[u]["final_prompt"] = LongPrompt
        /\ user_data[u]["original_prompt"] = LongPrompt
        /\ user_data[u]["enhanced_prompt"] # LongPrompt

\* C9 as stated: improve(originalPrompt) fails, the next input is "3", and
\* final_prompt is then set and equals the prompt submitted to the failed
\* refinement.
C9_Original ==
    [][\A u \in Users :
          (RefinementJustFailed(u) /\ TextStep(u, "3")) =>
              /\ Has(user_data', u)
              /\ Has(user_data'[u], "final_prompt")
              /\ user_data'[u]["final_prompt"] = improved.prompt]_vars

\* the session fields of the data model
SessionFields == {"original_prompt", "enhanced_prompt", "final_prompt",
                  "reference_image", "generated_images"}

\* C10 (as amended): cancel is accepted in each of the six conversation
\* states and ends the conversation immediately; the user's stored session
\* data stays as it was (it is replaced when the next prompt is submitted).
C10_CancelEndsKeepsData ==
    [][\A u \in Users :
          (conv[u] \in States /\ CommandStep(u, "/cancel")) =>
              /\ \A state \in States :
                    conv_handler(state, CommandUpdate("/cancel")) = "cancel"
              /\ update'.handler = "cancel"
              /\ conv'[u] = END
              /\ out'[u] = <<Text("CANCELLED", <<>>)>>
              /\ user_data' = user_data]_vars

C10_Witness ==
    \E u \in Users :
        /\ update.user = u /\ update.text = "/cancel" /\ update.handler = "cancel"
        /\ conv[u] = END
        /\ Has(user_data, u)
        /\ DOMAIN user_data[u] =
              {"original_prompt", "enhanced_prompt", "final_prompt", "reference_image"}

\* C10 as stated: cancel is accepted in every state, ends the conversation
\* and discards the session data: no field of the user remains stored.
C10_Original ==
    [][\A u \in Users :
          (conv[u] \in States /\ CommandStep(u, "/cancel")) =>
              /\ conv'[u] = END
              /\ (DOMAIN Session(user_data', u)) \cap SessionFields = {}]_vars


\* a step of the reference client's script answers with a failure
RefFailure(script) ==
    \/ script.slot.fault # "none" \/ script.slot.code # 200
    \/ ~Has(script.slot.body, "uploadInitImage")
    \/ script.fetch.fault # "none" \/ script.fetch.code # 200
    \/ script.upload.fault # "none" \/ script.upload.code # 204
    \/ script.submit.fault # "none" \/ script.submit.code # 200
    \/ ~Has(script.submit.body, "sdGenerationJob")
    \/ script.check.fault # "none"

\* the submission of the no-reference client fails, or a status check it
\* makes raises
GenFailure(c) ==
    \/ c.script.submit.fault # "none" \/ c.script.submit.code # 200
    \/ ~Has(c.script.submit.body, "sdGenerationJob")
    \/ \E i \in 1..NumChecks(c.trace) : c.script.polls[i].fault # "none"

CallFailed ==
    \/ call.fn = "generate_image" /\ GenFailure(call)
    \/ call.fn = "generate_image_with_reference" /\ RefFailure(call.script)

\* C11: a generation call made by a transition always ends in a result, success
\* or error; when a request of the call failed (non-200 submission or upload
\* slot, failed fetch or upload of the reference, malformed payload, exception
\* in a status check) the result is an error with its text and no image, and
\* the transition that made the call did not raise: it answered with the
\* failure text and returned IteratingImage.
C11_FailuresBecomeErrorResults ==
    call.fn # "none" =>
        /\ call.status \in {"success", "error"}
        /\ ~update.raised
        /\ conv[update.user] = ITERATING_IMAGE
        /\ CallFailed =>
              /\ call.status = "error"
              /\ call.error # ""
              /\ call.url = ""
              /\ out[update.user][Len(out[update.user])]
                    = Text("GENERATION_ERROR_RETRY_MODIFY_1_2", <<>>)

C11_Witness ==
    /\ call.fn = "generate_image_with_reference"
    /\ call.script.fetch = FetchMissing
    /\ call.status = "error"
    /\ call.error = "Failed to download image from Telegram"
    /\ update.handler = "handle_reference_image"
    /\ ~update.raised
    /\ conv[update.user] = ITERATING_IMAGE


\* C12: a photo handled in AwaitingReference for a user whose session holds
\* no final_prompt, or who has no session at all, returns InitialPrompt with
\* the "lost track of your prompt" text, stores no reference image (the
\* session store is left as it was) and makes no generation call.
C12_LostPromptRestarts ==
    [][\A u \in Users :
         (/\ conv[u] = AWAITING_REFERENCE
          /\ update'.user = u /\ update'.kind = "photo"
          /\ ~Has(Session(user_data, u), "final_prompt"))
         => /\ update'.handler = "handle_reference_image"
            /\ ~update'.raised
            /\ conv'[u] = INITIAL_PROMPT
            /\ user_data' = user_data
            /\ call' = NoCall
            /\ out'[u] = <<Text("LOST_PROMPT_START_OVER", <<>>)>>]_vars

C12_Witness ==
    \E u \in Users :
        /\ update.user = u /\ update.handler = "handle_reference_image"
        /\ conv[u] = INITIAL_PROMPT
        /\ ~Has(user_data, u)
        /\ call = NoCall
        /\ out[u] = <<Text("LOST_PROMPT_START_OVER", <<>>)>>


\* the handler entered for t is one that makes a refinement or generation call
MakesCall(t) ==
    LET handler == conv_handler(conv[t.user], t.upd)
    IN  \/ handler \in {"handle_initial_prompt", "handle_reference_image"}
        \/ handler = "handle_prompt_choice" /\ t.upd.text = "2"
        \/ handler = "handle_reference_choice" /\ t.upd.text = "2"
        \/ handler = "handle_image_iteration" /\ t.upd.text = "1"

\* C13: while the handler of one user's update is inside a refinement or
\* generation call and the next update waiting is from a different user, the
\* application can enter the handler of that update, before the first
\* handler has returned.
C13_OtherUserProceeds ==
    \A t \in running :
        (/\ MakesCall(t)
         /\ update_queue # <<>>
         /\ Head(update_queue).user # t.user)
        => ENABLED Begin

\* C14: the handler of an update is entered only when no handler of an update
\* of the same user is still running, so each user has at most one handler
\* running; an update (a cancel command during a generation call included)
\* that arrives meanwhile stays queued and acts on the state the finished
\* handler left.
C14_OneTransitionPerUser ==
    [][/\ \A t \in running' \ running : \A r \in running : r.user # t.user
       /\ \A t, r \in running' : t.user = r.user => t = r
       /\ running # {} /\ running' # {} => update_queue' \in {update_queue} \cup
              { Append(update_queue, [user |-> u, upd |-> upd]) :
                  u \in Senders, upd \in DispatchUpdates }]_vars

C14_Witness ==
    \E t \in running :
        /\ conv_handler(conv[t.user], t.upd) = "handle_reference_choice"
        /\ t.upd.text = "2"
        /\ update_queue # <<>>
        /\ Head(update_queue) = [user |-> t.user, upd |-> CommandUpdate("/cancel")]
        /\ conv[t.user] = REFERENCE_CHOICE
        /\ call = NoCall


\* C15: after a generation call of the conversation that returned success
\* (from "2" in ReferenceChoice, a reference photo, or "1" in IteratingImage),
\* the user's session holds the returned image under generated_images and
\* the conversation state is IteratingImage.
C15_GeneratedImagesStored ==
    call.status = "success" =>
        /\ update.handler \in {"handle_reference_choice", "handle_reference_image",
                                "handle_image_iteration"}
        /\ conv[update.user] = ITERATING_IMAGE
        /\ Has(Session(user_data, update.user), "generated_images")
        /\ Session(user_data, update.user)["generated_images"] = <<call.url>>


TimedOut == "Generation timed out or failed to complete"

\* status check i of the no-reference call was made and was answered
\* "COMPLETE, no images"
CompleteEmptyOnCheck(i) ==
    /\ ScratchCallSubmitted
    /\ i <= NumChecks(call.trace)
    /\ call.script.polls[i] = PollCompleteEmpty

\* C16 (as amended): in generate_image a status check answered "COMPLETE"
\* with zero images does not end the call: unless it was the 30th check, the
\* call waits 2 seconds and checks again. The call returns the timed-out
\* error when no later check up to the 30th reports completion with an
\* image, and returns success with the image of the first later check that
\* does; it never returns success on the answer without images.
C16_CompleteEmptyPollsOn ==
    \A i \in 1..max_attempts :
        CompleteEmptyOnCheck(i) =>
            /\ i < max_attempts =>
                  /\ NumChecks(call.trace) > i
                  /\ call.trace[2 * i + 1] = "sleep 2"
                  /\ call.trace[2 * i + 2] = "GET /generations/id"
            /\ (\A j \in (i + 1)..max_attempts : call.script.polls[j] \in NotCompleteAnswers)
                  => /\ call.status = "error"
                     /\ call.error = TimedOut
                     /\ NumChecks(call.trace) = max_attempts
            /\ \A k \in (i + 1)..max_attempts :
                  FirstCompleteOn(call.script.polls, k)
                  => /\ call.status = "success"
                     /\ call.url = JobOf(call.script.polls[k].body).generated_images[1].url
            /\ call.status = "success"
                  => call.script.polls[NumChecks(call.trace)] \in CompleteAnswers

C16_Witness ==
    /\ CompleteEmptyOnCheck(1)
    /\ CompleteEmptyOnCheck(3)
    /\ FirstCompleteOn(call.script.polls, 4)
    /\ call.status = "success"
    /\ call.url = Image1
    /\ NumChecks(call.trace) = 4

\* C16 as stated: a status check answered "COMPLETE" with zero images makes
\* generate_image return the timed-out error; such a call never returns success.
C16_Original ==
    \A i \in 1..max_attempts :
        CompleteEmptyOnCheck(i) =>
            /\ call.status = "error"
            /\ call.error = TimedOut


\* C17: generate_image_with_reference returns success only if its single
\* status check, made after the fixed 20-second wait, is answered 200 with
\* status COMPLETE and at least one image, and the image returned is the
\* first one; an answer whose status is not COMPLETE never yields success.
C17_ReferenceSuccessOnlyWhenComplete ==
    (call.fn = "generate_image_with_reference" /\ call.status = "success") =>
        /\ NumChecks(call.trace) = 1
        /\ call.trace[Len(call.trace) - 1] = "sleep 20"
        /\ call.trace[Len(call.trace)] = "GET /generations/id"
        /\ call.script.check.code = 200
        /\ JobOf(call.script.check.body).generated_images # <<>>
        /\ call.url = JobOf(call.script.check.body).generated_images[1].url
        /\ JobOf(call.script.check.body).status = "COMPLETE"


\* C18: in ChoosingPrompt, input "1" sets final_prompt to the stored
\* enhanced_prompt and input "3" sets it to the stored original_prompt; both
\* stored prompts are left as they were, nothing else of the session
\* changes, and the next state is ReferenceChoice.
C18_ChoiceSetsFinalPrompt ==
    [][\A u \in Users : \A t \in {"1", "3"} :
         (conv[u] = CHOOSING_PROMPT /\ TextStep(u, t)) =>
            LET before == Session(user_data, u)
                after == Session(user_data', u)
            IN  /\ update'.handler = "handle_prompt_choice"
                /\ conv'[u] = REFERENCE_CHOICE
                /\ Has(after, "final_prompt")
                /\ after["final_prompt"] =
                      IF t = "1" THEN before["enhanced_prompt"] ELSE before["original_prompt"]
                /\ after["original_prompt"] = before["original_prompt"]
                /\ after["enhanced_prompt"] = before["enhanced_prompt"]
                /\ DOMAIN after = DOMAIN before \cup {"final_prompt"}
                /\ improved' = NoImprove /\ call' = NoCall]_vars

C18_Witness ==
    \E u \in Users :
        /\ update.user = u /\ update.handler = "handle_prompt_choice" /\ update.text = "3"
        /\ conv[u] = REFERENCE_CHOICE
        /\ Session(user_data, u)["original_prompt"] = FrogPrompt
        /\ Session(user_data, u)["enhanced_prompt"] = "enhanced#2"
        /\ Session(user_data, u)["final_prompt"] = FrogPrompt


ImproveSuccesses == {ImproveOk(e) : e \in EnhancedPrompts}

\* C19: in ChoosingPrompt, input "2" sends the stored original_prompt (not the
\* enhanced one) to the refinement again. original_prompt is the same before
\* and after; when the refinement succeeds the next state is ChoosingPrompt
\* and enhanced_prompt is the one just returned, when it fails the next state
\* is InitialPrompt; the session holds no final_prompt afterwards.
C19_RefineAgainUsesOriginal ==
    [][\A u \in Users :
         (conv[u] = CHOOSING_PROMPT /\ TextStep(u, "2")) =>
            LET before == Session(user_data, u)
                after == Session(user_data', u)
            IN  /\ update'.handler = "handle_prompt_choice"
                /\ ~update'.raised
                /\ improved'.prompt = before["original_prompt"]
                /\ after["original_prompt"] = before["original_prompt"]
                /\ ~Has(after, "final_prompt")
                /\ call' = NoCall
                /\ improved'.response \in ImproveSuccesses =>
                      /\ conv'[u] = CHOOSING_PROMPT
                      /\ after["enhanced_prompt"] =
                            improved'.response.body["promptGeneration"].prompt
                /\ improved'.response \notin ImproveSuccesses =>
                      /\ conv'[u] = INITIAL_PROMPT
                      /\ ~Has(after, "enhanced_prompt")]_vars

C19_Witness ==
    \E u \in Users :
        /\ update.user = u /\ update.handler = "handle_prompt_choice" /\ update.text = "2"
        /\ conv[u] = CHOOSING_PROMPT
        /\ improved.prompt = FrogPrompt
        /\ improved.response = ImproveOk("enhanced#2")
        /\ Session(user_data, u) =
              [original_prompt |-> FrogPrompt, enhanced_prompt |-> "enhanced#2"]


\* C20: in IteratingImage, input "1" makes a generation call with the
\* session's final_prompt and its reference image (the reference client on
\* the stored file path, or the no-reference client when none is stored),
\* which is the call the previous generation of the flow made, and leaves the
\* session (final_prompt, reference_image, original_prompt, enhanced_prompt)
\* as it was.
C20_RetryRepeatsTheCall ==
    [][\A u \in Users :
         (conv[u] = ITERATING_IMAGE /\ TextStep(u, "1")) =>
            LET session == Session(user_data, u)
            IN  /\ update'.handler = "handle_image_iteration"
                /\ call'.fn # "none"
                /\ call'.prompt = session["final_prompt"]
                /\ Has(session, "reference_image") =>
                      /\ call'.fn = "generate_image_with_reference"
                      /\ call'.image_url = session["reference_image"].file_path
                /\ ~Has(session, "reference_image") =>
                      /\ call'.fn = "generate_image"
                      /\ call'.image_url = ""
                /\ (update.user = u /\ call.fn # "none") =>
                      /\ call'.fn = call.fn
                      /\ call'.prompt = call.prompt
                      /\ call'.image_url = call.image_url
                /\ user_data' = user_data
                /\ conv'[u] = ITERATING_IMAGE]_vars

C20_Witness ==
    \E u \in Users :
        /\ update.user = u /\ update.handler = "handle_image_iteration" /\ update.text = "1"
        /\ conv[u] = ITERATING_IMAGE
        /\ call.fn = "generate_image_with_reference"
        /\ call.status = "success"
        /\ call.prompt = Session(user_data, u)["final_prompt"]
        /\ call.image_url = Session(user_data, u)["reference_image"].file_path


\* the state after a generation call of user u that ended in an error
FailedCallOf(u) == update.user = u /\ call.status = "error"

\* C21: after a failed generation call the last message sent offers "try
\* again" / "modify the prompt", the conversation state is IteratingImage, and
\* the session still holds the final_prompt (and the reference image, if
\* one was used) of the failed call; from there input "1" runs the generation
\* again with the same prompt and reference, and input "2" returns to
\* InitialPrompt.
C21_FailedGenerationRecoverable ==
    [][\A u \in Users :
         /\ (update'.user = u /\ call'.status = "error") =>
               LET after == Session(user_data', u)
               IN  /\ conv'[u] = ITERATING_IMAGE
                   /\ out'[u][Len(out'[u])] = Text("GENERATION_ERROR_RETRY_MODIFY_1_2", <<>>)
                   /\ Has(after, "final_prompt")
                   /\ after["final_prompt"] = call'.prompt
                   /\ call'.fn = "generate_image_with_reference" =>
                         /\ Has(after, "reference_image")
                         /\ after["reference_image"].file_path = call'.image_url
                   /\ call'.fn = "generate_image" => ~Has(after, "reference_image")
         /\ (FailedCallOf(u) /\ TextStep(u, "1")) =>
               /\ update'.handler = "handle_image_iteration"
               /\ call'.fn = call.fn
               /\ call'.prompt = call.prompt
               /\ call'.image_url = call.image_url
         /\ (FailedCallOf(u) /\ TextStep(u, "2")) =>
               /\ update'.handler = "handle_image_iteration"
               /\ conv'[u] = INITIAL_PROMPT]_vars

C21_Witness ==
    \E u \in Users :
        /\ update.handler = "handle_image_iteration" /\ update.text = "1"
        /\ FailedCallOf(u)
        /\ call.fn = "generate_image_with_reference"
        /\ call.error = "Failed to upload to S3"
        /\ conv[u] = ITERATING_IMAGE
        /\ Session(user_data, u)["reference_image"].file_path = call.image_url


\* the registered handlers of the state whose filter lets the update through
Matching(state, upd) ==
    { e.handler : e \in { r \in states : r.state = state /\ upd.kind \in r.kinds } }

NonCommandUpdates ==
    {TextUpdate(t) : t \in Texts} \cup {PhotoUpdate(p) : p \in PhotoUpdates}

\* C22 (as amended): in every conversation state a text or photo message is
\* given to at most one transition function, never to two: to the state's
\* one handler when the kind of the message is the kind that handler takes
\* (text in InitialPrompt, ChoosingPrompt, ReferenceChoice and IteratingImage,
\* a photo in AwaitingReference, either in GeneratingImage), and to none
\* otherwise, in which case the message is ignored: state and session are
\* unchanged and nothing is sent.
C22_AtMostOneTransition ==
    /\ [](\A state \in States : \A upd \in NonCommandUpdates :
            /\ Cardinality(Matching(state, upd)) <= 1
            /\ Matching(state, upd) = {} => conv_handler(state, upd) = "none"
            /\ Matching(state, upd) # {} => Matching(state, upd) = {conv_handler(state, upd)}
            /\ Matching(state, upd) # {} <=>
                  \/ state = GENERATING_IMAGE
                  \/ state = AWAITING_REFERENCE /\ upd.kind = "photo"
                  \/ state \notin {AWAITING_REFERENCE, GENERATING_IMAGE} /\ upd.kind = "text")
    /\ [][\A u \in Users :
            (conv[u] \in States /\ update'.user = u /\ update'.kind \in {"text", "photo"}) =>
                LET upd == [kind |-> update'.kind, text |-> update'.text,
                            photo |-> update'.photo]
                IN  /\ Matching(conv[u], upd) # {} =>
                          Matching(conv[u], upd) = {update'.handler}
                    /\ Matching(conv[u], upd) = {} =>
                          /\ update'.handler = "none"
                          /\ conv' = conv /\ user_data' = user_data /\ out' = out
                          /\ call' = NoCall /\ improved' = NoImprove]_vars

C22_Witness ==
    \E u \in Users :
        /\ update.user = u /\ update.kind = "text" /\ update.handler = "none"
        /\ conv[u] = AWAITING_REFERENCE
        /\ out[u] = <<Text("UPLOAD_REFERENCE", <<>>)>>

\* C22 as stated: in every conversation state a text or photo message is
\* given to exactly one transition function, never to none.
C22_Original ==
    [][\A u \in Users :
         (conv[u] \in States /\ update'.user = u /\ update'.kind \in {"text", "photo"})
            => update'.handler # "none"]_vars


\* the step runs the InitialPrompt transition for user u: a prompt sent in
\* InitialPrompt, or "2" (try another enhancement) in ChoosingPrompt
RefinesPrompt(u) ==
    /\ update'.user = u
    /\ ~update'.raised
    /\ \/ update'.handler = "handle_initial_prompt"
       \/ update'.handler = "handle_prompt_choice" /\ update'.text = "2"

\* C23: every run of the InitialPrompt transition leaves the session with no
\* reference image and no final_prompt, and no session holds a reference
\* image while its conversation is in ChoosingPrompt, ReferenceChoice or
\* AwaitingReference. So "2" (no reference) in ReferenceChoice calls the
\* no-reference client, and the reference client is only called on the photo
\* just received in AwaitingReference or, on a retry, on the reference the
\* session has held unchanged since that photo.
C23_NoStaleReference ==
    /\ [](\A u \in Users :
            conv[u] \in {CHOOSING_PROMPT, REFERENCE_CHOICE, AWAITING_REFERENCE}
                => ~Has(Session(user_data, u), "reference_image"))
    /\ [][\A u \in Users :
            /\ RefinesPrompt(u) =>
                  /\ ~Has(Session(user_data', u), "reference_image")
                  /\ ~Has(Session(user_data', u), "final_prompt")
            /\ (conv[u] = REFERENCE_CHOICE /\ TextStep(u, "2")) =>
                  /\ call'.fn = "generate_image"
                  /\ call'.image_url = ""
            /\ (update'.user = u /\ call'.fn = "generate_image_with_reference") =>
                  \/ /\ conv[u] = AWAITING_REFERENCE
                     /\ update'.kind = "photo"
                     /\ call'.image_url =
                           FilePath(update'.photo[Len(update'.photo)].file_id)
                  \/ /\ conv[u] = ITERATING_IMAGE
                     /\ update'.text = "1"
                     /\ call'.image_url = Session(user_data, u)["reference_image"].file_path
            /\ (update'.user = u /\ conv'[u] = ITERATING_IMAGE
                   /\ conv[u] \in {REFERENCE_CHOICE, ITERATING_IMAGE})
                  => user_data' = user_data]_vars

C23_Witness ==
    \E u \in Users :
        /\ update.user = u /\ update.handler = "handle_reference_choice" /\ update.text = "2"
        /\ call.fn = "generate_image"
        /\ call.status = "success"
        /\ Has(context_user_data, u)
        /\ ~Has(Session(user_data, u), "reference_image")


\* C24: whenever a conversation is in ChoosingPrompt its session holds both
\* original_prompt and enhanced_prompt, and the inputs "1", "2" and "3" sent
\* in that state are handled without a missing-key failure.
C24_ChoosingHoldsBothPrompts ==
    /\ [](\A u \in Users :
            conv[u] = CHOOSING_PROMPT =>
                /\ Has(user_data, u)
                /\ Has(Session(user_data, u), "original_prompt")
                /\ Has(Session(user_data, u), "enhanced_prompt"))
    /\ [][\A u \in Users : \A t \in PromptChoices :
            (conv[u] = CHOOSING_PROMPT /\ TextStep(u, t)) =>
                /\ update'.handler = "handle_prompt_choice"
                /\ ~update'.raised]_vars

C24_Witness ==
    \E u \in Users :
        /\ update.user = u /\ update.handler = "handle_initial_prompt"
        /\ conv[u] = CHOOSING_PROMPT
        /\ Session(user_data, u) =
              [original_prompt |-> LongPrompt, enhanced_prompt |-> "enhanced#1"]

====
